---- MODULE Spec2Model ----
(***************************************************************************)
(* gocut: dead-code elimination for one Go package, starting from an entry *)
(* file (main.go).  The model follows main -> CollectUsedDeclarations ->   *)
(* WriteFilteredSource -> autoFixImports.  The recursive closure visit is  *)
(* run on an explicit stack that holds the calls still to be made, in the  *)
(* order the Go code makes them.                                           *)
(***************************************************************************)
EXTENDS Integers, Sequences, FiniteSets, Bags, TLC

(***************************************************************************)
(* Bounds of the model.                                                    *)
(***************************************************************************)
\* Largest number of declarations in a generated compilation unit.
MaxDecls == 3

(***************************************************************************)
(* types.Object: a resolved symbol.  Identity is the pair (name, scope);   *)
(* two objects may share a name.  NoObj is the nil object.                 *)
(***************************************************************************)
Obj(n, s) == [n |-> n, s |-> s]

NoObj == Obj("", "nil")

\* Objects that exist without a defining identifier in the unit: a
\* predeclared type, an imported package and a type of that package.
Externals == {Obj("int", "universe"), Obj("fmt", "import"), Obj("Stringer", "fmt")}

External(o) == o \in Externals

(***************************************************************************)
(* ast.Node.  Every node has a kind k and its children sub in the order    *)
(* ast.Walk visits them; an *ast.Ident also has its spelling and the       *)
(* objects the type checker would record for it in info.Uses / info.Defs.  *)
(* NilNode is a nil child (no result list, no slice bound, no body).       *)
(***************************************************************************)
Node(k, sub) == [k |-> k, name |-> "", use |-> NoObj, def |-> NoObj, sub |-> sub]

NilNode == Node("nil", <<>>)

\* An identifier that uses the object (n, s).
Use(n, s) == [k |-> "Ident", name |-> n, use |-> Obj(n, s), def |-> NoObj, sub |-> <<>>]

\* An identifier that defines the object (n, s).
Def(n, s) == [k |-> "Ident", name |-> n, use |-> NoObj, def |-> Obj(n, s), sub |-> <<>>]

\* An identifier the type checker records nothing for (the _ of "_ = x").
Unresolved(n) == [k |-> "Ident", name |-> n, use |-> NoObj, def |-> NoObj, sub |-> <<>>]

BasicLit == Node("BasicLit", <<>>)

\* ast.Field: names, then the type.
Field(names, type) == Node("Field", names \o <<type>>)

FieldList(fields) == Node("FieldList", fields)

\* ast.FuncType: Params is never nil, Results is nil when there is no result.
FuncType(params, results) == Node("FuncType", <<params, results>>)

\* A function body: the expressions of its statements, in source order.
Block(exprs) == Node("BlockStmt", exprs)

(***************************************************************************)
(* ast.Decl.  A FuncDecl has a name, a receiver, a type and a body; a      *)
(* GenDecl has specs (TypeSpec, ValueSpec or ImportSpec).                  *)
(***************************************************************************)
FuncDecl(recv, name, type, body) ==
    [kind |-> "FuncDecl", name |-> name, recv |-> recv, type |-> type,
     body |-> body, specs |-> <<>>]

GenDecl(specs) ==
    [kind |-> "GenDecl", name |-> NilNode, recv |-> NilNode, type |-> NilNode,
     body |-> NilNode, specs |-> specs]

TypeSpec(name, type) ==
    [sk |-> "TypeSpec", names |-> <<name>>, type |-> type, values |-> <<>>]

ValueSpec(names, type, values) ==
    [sk |-> "ValueSpec", names |-> names, type |-> type, values |-> values]

ImportSpec == [sk |-> "ImportSpec", names |-> <<>>, type |-> NilNode, values |-> <<BasicLit>>]

NoParams == FieldList(<<>>)

(***************************************************************************)
(* The declarations a generated unit is composed of.                       *)
(***************************************************************************)
\* func A() { B() }
DeclA1 ==
    FuncDecl(NilNode, Def("A", "pkg"), FuncType(NoParams, NilNode),
             Block(<<Node("CallExpr", <<Use("B", "pkg")>>)>>))

\* func A() T { B := 1; _ = B; return 0 }
DeclA2 ==
    FuncDecl(NilNode, Def("A", "pkg"),
             FuncType(NoParams, FieldList(<<Field(<<>>, Use("T", "pkg"))>>)),
             Block(<<Def("B", "local"), BasicLit, Unresolved("_"),
                     Use("B", "local"), BasicLit>>))

\* func B() { A(); B() }
DeclB1 ==
    FuncDecl(NilNode, Def("B", "pkg"), FuncType(NoParams, NilNode),
             Block(<<Node("CallExpr", <<Use("A", "pkg")>>),
                     Node("CallExpr", <<Use("B", "pkg")>>)>>))

\* func B(i I) { i.M() }
DeclB2 ==
    FuncDecl(NilNode, Def("B", "pkg"),
             FuncType(FieldList(<<Field(<<Def("i", "local")>>, Use("I", "pkg"))>>), NilNode),
             Block(<<Node("CallExpr",
                          <<Node("SelectorExpr", <<Use("i", "local"), Use("M", "iface")>>)>>)>>))

\* type S struct { f *T; next []S }
DeclS1 ==
    GenDecl(<<TypeSpec(Def("S", "pkg"),
        Node("StructType", <<FieldList(<<
            Field(<<Def("f", "field")>>, Node("StarExpr", <<Use("T", "pkg")>>)),
            Field(<<Def("next", "field")>>, Node("ArrayType", <<NilNode, Use("S", "pkg")>>))
        >>)>>))>>)

\* type S struct { cb func(T) }
DeclS2 ==
    GenDecl(<<TypeSpec(Def("S", "pkg"),
        Node("StructType", <<FieldList(<<
            Field(<<Def("cb", "field")>>,
                  FuncType(FieldList(<<Field(<<>>, Use("T", "pkg"))>>), NilNode))
        >>)>>))>>)

\* type T struct { m map[T]chan S; g func(...S) T; p fmt.Stringer; a []struct{ x I } }
DeclT1 ==
    GenDecl(<<TypeSpec(Def("T", "pkg"),
        Node("StructType", <<FieldList(<<
            Field(<<Def("m", "field")>>,
                  Node("MapType", <<Use("T", "pkg"), Node("ChanType", <<Use("S", "pkg")>>)>>)),
            Field(<<Def("g", "field")>>,
                  FuncType(FieldList(<<Field(<<>>, Node("Ellipsis", <<Use("S", "pkg")>>))>>),
                           FieldList(<<Field(<<>>, Use("T", "pkg"))>>))),
            Field(<<Def("p", "field")>>,
                  Node("SelectorExpr", <<Use("fmt", "import"), Use("Stringer", "fmt")>>)),
            Field(<<Def("a", "field")>>,
                  Node("ArrayType", <<NilNode,
                       Node("StructType", <<FieldList(<<
                           Field(<<Def("x", "field")>>, Use("I", "pkg"))>>)>>)>>))
        >>)>>))>>)

\* type T int
DeclT2 == GenDecl(<<TypeSpec(Def("T", "pkg"), Use("int", "universe"))>>)

\* type I interface { M() T }
DeclI ==
    GenDecl(<<TypeSpec(Def("I", "pkg"),
        Node("InterfaceType", <<FieldList(<<
            Field(<<Def("M", "iface")>>,
                  FuncType(NoParams, FieldList(<<Field(<<>>, Use("T", "pkg"))>>)))
        >>)>>))>>)

\* func (s S) M() T { return V }
DeclMS ==
    FuncDecl(FieldList(<<Field(<<Def("s", "local")>>, Use("S", "pkg"))>>),
             Def("M", "S"),
             FuncType(NoParams, FieldList(<<Field(<<>>, Use("T", "pkg"))>>)),
             Block(<<Use("V", "pkg")>>))

\* func (t T) M() T { return t }
DeclMT ==
    FuncDecl(FieldList(<<Field(<<Def("t", "local")>>, Use("T", "pkg"))>>),
             Def("M", "T"),
             FuncType(NoParams, FieldList(<<Field(<<>>, Use("T", "pkg"))>>)),
             Block(<<Use("t", "local")>>))

\* var V *S = &S{f: B(W)}
DeclV1 ==
    GenDecl(<<ValueSpec(<<Def("V", "pkg")>>,
        Node("StarExpr", <<Use("S", "pkg")>>),
        <<Node("UnaryExpr", <<
            Node("CompositeLit", <<Use("S", "pkg"),
                Node("KeyValueExpr", <<Use("f", "field"),
                    Node("CallExpr", <<Use("B", "pkg"), Use("W", "pkg")>>)>>)>>)>>)>>)>>)

\* var ( V = func() T { return W }; W T = 1 )
DeclVG ==
    GenDecl(<<
        ValueSpec(<<Def("V", "pkg")>>, NilNode,
            <<Node("FuncLit", <<
                FuncType(NoParams, FieldList(<<Field(<<>>, Use("T", "pkg"))>>)),
                Block(<<Use("W", "pkg")>>)>>)>>),
        ValueSpec(<<Def("W", "pkg")>>, Use("T", "pkg"), <<BasicLit>>)>>)

\* var V, W = (A().(I)).M(), *B() + S{}.next[0:1][0]
DeclV2 ==
    GenDecl(<<ValueSpec(<<Def("V", "pkg"), Def("W", "pkg")>>, NilNode,
        <<Node("CallExpr", <<
              Node("SelectorExpr", <<
                  Node("ParenExpr", <<
                      Node("TypeAssertExpr", <<
                          Node("CallExpr", <<Use("A", "pkg")>>),
                          Use("I", "pkg")>>)>>),
                  Use("M", "iface")>>)>>),
          Node("BinaryExpr", <<
              Node("StarExpr", <<Node("CallExpr", <<Use("B", "pkg")>>)>>),
              Node("IndexExpr", <<
                  Node("SliceExpr", <<
                      Node("SelectorExpr", <<
                          Node("CompositeLit", <<Use("S", "pkg")>>),
                          Use("next", "field")>>),
                      BasicLit, BasicLit, NilNode>>),
                  BasicLit>>)>>)>>)>>)

\* import "fmt"
DeclImport == GenDecl(<<ImportSpec>>)

Menu ==
    <<DeclA1, DeclA2, DeclB1, DeclB2, DeclS1, DeclS2, DeclT1, DeclT2, DeclI,
      DeclMS, DeclMT, DeclV1, DeclVG, DeclV2>>


(***************************************************************************)
(* The end-to-end scenario of the test package: the entry file defines     *)
(* MainFunc, helper, MyStruct and Unused; Helper2Type is the type of a     *)
(* field of MyStruct.                                                      *)
(***************************************************************************)
\* func MainFunc() { helper() }
DeclMainFunc ==
    FuncDecl(NilNode, Def("MainFunc", "pkg"), FuncType(NoParams, NilNode),
             Block(<<Node("CallExpr", <<Use("helper", "pkg")>>)>>))

\* func helper() MyStruct { return MyStruct{} }
DeclHelper ==
    FuncDecl(NilNode, Def("helper", "pkg"),
             FuncType(NoParams, FieldList(<<Field(<<>>, Use("MyStruct", "pkg"))>>)),
             Block(<<Node("CompositeLit", <<Use("MyStruct", "pkg")>>)>>))

\* type MyStruct struct { H Helper2Type }
DeclMyStruct ==
    GenDecl(<<TypeSpec(Def("MyStruct", "pkg"),
        Node("StructType", <<FieldList(<<
            Field(<<Def("H", "field")>>, Use("Helper2Type", "pkg"))>>)>>))>>)

\* type Helper2Type struct{}
DeclHelper2Type ==
    GenDecl(<<TypeSpec(Def("Helper2Type", "pkg"),
        Node("StructType", <<FieldList(<<>>)>>))>>)

\* func Unused() {}
DeclUnusedFunc ==
    FuncDecl(NilNode, Def("Unused", "pkg"), FuncType(NoParams, NilNode), Block(<<>>))

\* var Unused = 1
DeclUnusedVar == GenDecl(<<ValueSpec(<<Def("Unused", "pkg")>>, NilNode, <<BasicLit>>)>>)

(***************************************************************************)
(* Identifiers of a subtree in the order ast.Inspect reaches them.         *)
(***************************************************************************)
RECURSIVE Idents(_), IdentsOf(_)

Idents(n) == IF n.k = "Ident" THEN <<n>> ELSE IdentsOf(n.sub)

IdentsOf(nodes) ==
    IF nodes = <<>> THEN <<>> ELSE Idents(Head(nodes)) \o IdentsOf(Tail(nodes))

RECURSIVE SpecNodes(_)

\* The children of the specs of a GenDecl: names, type, values of each.
SpecNodes(specs) ==
    IF specs = <<>> THEN <<>>
    ELSE Head(specs).names \o <<Head(specs).type>> \o Head(specs).values
         \o SpecNodes(Tail(specs))

\* The children of a declaration in ast.Walk order.
DeclNodes(d) ==
    IF d.kind = "FuncDecl" THEN <<d.recv, d.name, d.type, d.body>>
    ELSE SpecNodes(d.specs)

RECURSIVE DeclsIdents(_)

\* Every identifier of a list of declarations.
DeclsIdents(ds) ==
    IF ds = <<>> THEN <<>>
    ELSE IdentsOf(DeclNodes(Head(ds))) \o DeclsIdents(Tail(ds))

Range(seq) == {seq[i] : i \in DOMAIN seq}

(***************************************************************************)
(* packages.Load: the loaded package.  files is pkg.Syntax with the file   *)
(* names of fset (absolute paths); objects stands for pkg.TypesInfo, the   *)
(* objects some identifier of the package defines; items lists the places  *)
(* the declaration scan of visit passes, in its order: one per FuncDecl    *)
(* (spec 0) and one per spec of a GenDecl.                                 *)
(***************************************************************************)
EntryPath == "/p/entry.go"

OtherPath == "/p/other.go"

RECURSIVE FileItems(_, _, _)

FileItems(f, ds, d) ==
    IF d > Len(ds) THEN <<>>
    ELSE (IF ds[d].kind = "FuncDecl" THEN <<[f |-> f, d |-> d, s |-> 0]>>
          ELSE [s \in 1..Len(ds[d].specs) |-> [f |-> f, d |-> d, s |-> s]])
         \o FileItems(f, ds, d + 1)

Package(entryDecls, otherDecls, entryFirst) ==
    LET e == [filename |-> EntryPath, decls |-> entryDecls]
        o == [filename |-> OtherPath, decls |-> otherDecls]
        fs == IF entryFirst THEN <<e, o>> ELSE <<o, e>>
    IN  [files   |-> fs,
         objects |-> {id.def : id \in Range(DeclsIdents(entryDecls \o otherDecls))} \ {NoObj},
         items   |-> FileItems(1, fs[1].decls, 1) \o FileItems(2, fs[2].decls, 1)]

\* The names a declaration declares at package level (a method declares none).
TopNames(d) ==
    IF d.kind = "FuncDecl" THEN (IF d.recv = NilNode THEN {d.name.name} ELSE {})
    ELSE UNION {{n.name : n \in Range(d.specs[s].names)} : s \in DOMAIN d.specs}

\* Every declaration of the model, the scenario's behind the menu.
Catalogue == Menu \o <<DeclImport, DeclMainFunc, DeclHelper, DeclMyStruct,
                       DeclHelper2Type, DeclUnusedFunc, DeclUnusedVar>>

\* No package-level name is declared twice.
WellFormed(S) ==
    \A i \in S : \A j \in S : i # j => TopNames(Catalogue[i]) \cap TopNames(Catalogue[j]) = {}

\* The declarations with the indices S, in the order of the catalogue.
Pick(S) == LET idx == SelectSeq([i \in 1..Len(Catalogue) |-> i], LAMBDA i : i \in S)
           IN  [k \in 1..Len(idx) |-> Catalogue[idx[k]]]

\* A package is named by the declarations of its entry file, those of its
\* second file and the file order.
Key(entry, other, first) == [entry |-> entry, other |-> other, first |-> first]

\* Generated packages: at most MaxDecls declarations of the menu, split over
\* the entry file and a second file, in either file order.
GeneratedKeys ==
    UNION {{Key(E, S \ E, first) : E \in SUBSET S, first \in BOOLEAN} :
              S \in {X \in SUBSET (1..Len(Menu)) :
                         Cardinality(X) <= MaxDecls /\ WellFormed(X)}}

\* The scenario's packages: the entry file imports fmt and declares
\* MainFunc, helper, MyStruct and Unused.  Where the scenario leaves a
\* choice: the kind of Unused, the file that declares Helper2Type, the file
\* order.
ScenarioKeys ==
    LET n == Len(Menu) IN
    UNION {{Key({n + 1, n + 2, n + 3, n + 4, unused} \cup (IF inEntry THEN {n + 5} ELSE {}),
                IF inEntry THEN {} ELSE {n + 5},
                first) : inEntry \in BOOLEAN, first \in BOOLEAN} :
              unused \in {n + 6, n + 7}}

PackageKeys == GeneratedKeys \cup ScenarioKeys

\* What packages.Load returns for a key.
Loaded(k) == Package(Pick(k.entry), Pick(k.other), k.first)

NoPackage == [files |-> <<>>, objects |-> {}, items |-> <<>>]

(***************************************************************************)
(* State.                                                                  *)
(***************************************************************************)
VARIABLES
    pc,         \* where main is
    inputPath,  \* the -input flag
    pkg,        \* the package packages.Load returned
    visited,    \* map[types.Object]bool of CollectUsedDeclarations
    used,       \* map[string]bool
    declMap,    \* map[string]ast.Decl; a declaration is <<file, index>>
    stack,      \* the calls of visit still to be made, next one first
    expanded,   \* how often visit got past its guard, per object
    result,     \* what CollectUsedDeclarations returned
    outFile,    \* the output directory and file on disk
    calls       \* how often main called each step

vars == <<pc, inputPath, pkg, visited, used, declMap, stack, expanded, result, outFile, calls>>

\* The -input values: not given, relative, absolute.
InputPaths == {"", "entry.go", EntryPath}

(***************************************************************************)
(* Calls on the stack.                                                     *)
(***************************************************************************)
\* visit(obj)
VisitCall(o) == [t |-> "visit", obj |-> o, at |-> 0]

\* The rest of the declaration scan of visit(obj), from place at on.
ScanFrom(o, at) == [t |-> "scan", obj |-> o, at |-> at]

\* A nil pointer dereference.
PanicCall == [t |-> "panic", obj |-> NoObj, at |-> 0]

(***************************************************************************)
(* info.Uses[id] and info.Defs[id]: nil when the identifier denotes no     *)
(* object, as for a name the package does not declare.                     *)
(***************************************************************************)
InfoUses(info, id) ==
    IF id.use # NoObj /\ (External(id.use) \/ id.use \in info) THEN id.use ELSE NoObj

InfoDefs(info, id) == id.def

\* The callback without the fallback to info.Defs.
InspectIdentUsesOnly(info, id) == VisitCall(InfoUses(info, id))

\* The callback of ast.Inspect on an identifier: Uses, else Defs, then visit.
InspectIdent(info, id) ==
    LET ref == InfoUses(info, id)
    IN  VisitCall(IF ref = NoObj THEN InfoDefs(info, id) ELSE ref)

\* ast.Inspect over a subtree.
InspectAll(info, nodes) ==
    LET ids == IdentsOf(nodes) IN [i \in 1..Len(ids) |-> InspectIdent(info, ids[i])]

\* field.Type
FieldType(field) == field.sub[Len(field.sub)]

(***************************************************************************)
(* visitTypeExpr: the calls of visit it makes, in order.  A FuncType       *)
(* without results has Results = nil and e.Results.List dereferences it.   *)
(***************************************************************************)
RECURSIVE visitTypeExpr(_, _), visitFieldTypes(_, _)

\* visitTypeExpr without the recursion into the pointee of a pointer type.
visitTypeExprNoPointee(info, e) ==
    CASE e.k = "Ident"        -> <<VisitCall(InfoUses(info, e))>>
      [] e.k = "StarExpr"     -> <<>>
      [] e.k = "ArrayType"    -> visitTypeExpr(info, e.sub[2])
      [] e.k = "MapType"      -> visitTypeExpr(info, e.sub[1]) \o visitTypeExpr(info, e.sub[2])
      [] e.k = "SelectorExpr" -> visitTypeExpr(info, e.sub[1])
      [] e.k = "FuncType"     ->
            visitFieldTypes(info, e.sub[1].sub)
            \o (IF e.sub[2] = NilNode THEN <<PanicCall>>
                ELSE visitFieldTypes(info, e.sub[2].sub))
      [] e.k = "InterfaceType" -> <<>>
      [] e.k = "ChanType"     -> visitTypeExpr(info, e.sub[1])
      [] e.k = "Ellipsis"     -> visitTypeExpr(info, e.sub[1])
      [] OTHER                -> <<>>

visitTypeExpr(info, e) ==
    CASE e.k = "Ident"        -> <<VisitCall(InfoUses(info, e))>>
      [] e.k = "StarExpr"     -> visitTypeExpr(info, e.sub[1])
      [] e.k = "ArrayType"    -> visitTypeExpr(info, e.sub[2])
      [] e.k = "MapType"      -> visitTypeExpr(info, e.sub[1]) \o visitTypeExpr(info, e.sub[2])
      [] e.k = "SelectorExpr" -> visitTypeExpr(info, e.sub[1])
      [] e.k = "FuncType"     ->
            visitFieldTypes(info, e.sub[1].sub)
            \o (IF e.sub[2] = NilNode THEN <<PanicCall>>
                ELSE visitFieldTypes(info, e.sub[2].sub))
      [] e.k = "InterfaceType" -> <<>>
      [] e.k = "ChanType"     -> visitTypeExpr(info, e.sub[1])
      [] e.k = "Ellipsis"     -> visitTypeExpr(info, e.sub[1])
      [] OTHER                -> <<>>

visitFieldTypes(info, fields) ==
    IF fields = <<>> THEN <<>>
    ELSE visitTypeExpr(info, FieldType(Head(fields))) \o visitFieldTypes(info, Tail(fields))

(***************************************************************************)
(* visitExpr: the calls of visit it makes, in order.                       *)
(***************************************************************************)
RECURSIVE visitExpr(_, _), visitExprs(_, _)

visitExpr(info, e) ==
    CASE e.k = "CompositeLit" -> visitTypeExpr(info, e.sub[1]) \o visitExprs(info, Tail(e.sub))
      [] e.k = "CallExpr"     -> visitExpr(info, e.sub[1]) \o visitExprs(info, Tail(e.sub))
      [] e.k = "UnaryExpr"    -> visitExpr(info, e.sub[1])
      [] e.k = "BinaryExpr"   -> visitExpr(info, e.sub[1]) \o visitExpr(info, e.sub[2])
      [] e.k = "ParenExpr"    -> visitExpr(info, e.sub[1])
      [] e.k = "KeyValueExpr" -> visitExpr(info, e.sub[1]) \o visitExpr(info, e.sub[2])
      [] e.k = "Ident"        -> <<VisitCall(InfoUses(info, e))>>
      [] e.k = "SelectorExpr" -> visitExpr(info, e.sub[1])
      [] e.k = "IndexExpr"    -> visitExpr(info, e.sub[1]) \o visitExpr(info, e.sub[2])
      [] e.k = "SliceExpr"    ->
            visitExpr(info, e.sub[1])
            \o (IF e.sub[2] # NilNode THEN visitExpr(info, e.sub[2]) ELSE <<>>)
            \o (IF e.sub[3] # NilNode THEN visitExpr(info, e.sub[3]) ELSE <<>>)
            \o (IF e.sub[4] # NilNode THEN visitExpr(info, e.sub[4]) ELSE <<>>)
      [] e.k = "TypeAssertExpr" -> visitExpr(info, e.sub[1])
      [] e.k \in {"BasicLit", "BadExpr", "FuncLit", "Ellipsis"} -> <<>>
      [] OTHER                -> <<>>

visitExprs(info, es) ==
    IF es = <<>> THEN <<>> ELSE visitExpr(info, Head(es)) \o visitExprs(info, Tail(es))

(***************************************************************************)
(* The declaration scan of visit.                                          *)
(***************************************************************************)
DeclAt(p, it) == p.files[it.f].decls[it.d]

\* The name comparisons of the scan: does the declaration or spec at item
\* it carry the name?
Matches(p, it, name) ==
    LET d == DeclAt(p, it) IN
    IF d.kind = "FuncDecl" THEN d.name.name = name
    ELSE LET sp == d.specs[it.s] IN
         CASE sp.sk = "TypeSpec"  -> sp.names[1].name = name
           [] sp.sk = "ValueSpec" -> \E i \in DOMAIN sp.names : sp.names[i].name = name
           [] OTHER               -> FALSE

RECURSIVE Repeat(_, _)

Repeat(seq, n) == IF n = 0 THEN <<>> ELSE seq \o Repeat(seq, n - 1)

\* What visit does with a matching declaration after recording it: the body
\* of a function is inspected, the field types of a struct are walked, the
\* type and the values of a ValueSpec are walked once per matching name.
Expand(p, it, name) ==
    LET d == DeclAt(p, it) IN
    IF d.kind = "FuncDecl"
    THEN (IF d.body # NilNode THEN InspectAll(p.objects, <<d.body>>) ELSE <<>>)
    ELSE LET sp == d.specs[it.s] IN
         CASE sp.sk = "TypeSpec" ->
                IF sp.type.k = "StructType"
                THEN visitFieldTypes(p.objects, sp.type.sub[1].sub)
                ELSE <<>>
           [] sp.sk = "ValueSpec" ->
                Repeat((IF sp.type # NilNode THEN visitTypeExpr(p.objects, sp.type) ELSE <<>>)
                       \o visitExprs(p.objects, sp.values),
                       Cardinality({i \in DOMAIN sp.names : sp.names[i].name = name}))
           [] OTHER -> <<>>

\* declMap[name] = d
Put(m, name, d) == [n \in DOMAIN m \cup {name} |-> IF n = name THEN d ELSE m[n]]

\* The entry file of the package: the first file whose name is entryFile.
EntryIndex(p, entryFile) ==
    LET hits == {i \in DOMAIN p.files : p.files[i].filename = entryFile}
    IN  IF hits = {} THEN 0 ELSE CHOOSE i \in hits : \A j \in hits : i <= j


RECURSIVE DeclsNodesOf(_)

\* The children of a list of declarations, declaration by declaration.
DeclsNodesOf(ds) ==
    IF ds = <<>> THEN <<>> ELSE DeclNodes(Head(ds)) \o DeclsNodesOf(Tail(ds))

\* The guard without the visited check.
GuardedNilOnly(seen, obj) == obj = NoObj

\* The guard of visit: obj == nil || visited[obj].
Guarded(seen, obj) == obj = NoObj \/ obj \in seen

\* visited[obj] = true
Marked(seen, obj) == seen \cup {obj}

\* decls after "for _, d := range declMap { decls = append(decls, d) }":
\* one element per key.  The iteration order of a map is not specified, so
\* the list is kept up to its order, as the bag of its elements.
ReturnedDecls(m) ==
    LET ds == {m[n] : n \in DOMAIN m}
    IN  [d \in ds |-> Cardinality({n \in DOMAIN m : m[n] = d})]

(***************************************************************************)
(* Initial state: main starts with some -input flag; nothing is loaded and *)
(* nothing is on disk.                                                     *)
(***************************************************************************)
NoResult == [state |-> "none", decls |-> EmptyBag]

Init ==
    /\ pc = "main"
    /\ inputPath \in InputPaths
    /\ pkg = NoPackage
    /\ visited = {}
    /\ used = {}
    /\ declMap = <<>>
    /\ stack = <<>>
    /\ expanded = <<>>
    /\ result = NoResult
    /\ outFile = [dir |-> FALSE, file |-> "absent", decls |-> EmptyBag]
    /\ calls = [collect |-> 0, write |-> 0, fix |-> 0]

(***************************************************************************)
(* main, up to the call of CollectUsedDeclarations.                        *)
(***************************************************************************)
\* The -input flag is empty: main logs and returns.
MainNoInput ==
    /\ pc = "main"
    /\ inputPath = ""
    /\ pc' = "exit"
    /\ UNCHANGED <<inputPath, pkg, visited, used, declMap, stack, expanded, result, outFile, calls>>

\* main calls CollectUsedDeclarations(inputPath).
MainCollect ==
    /\ pc = "main"
    /\ inputPath # ""
    /\ pc' = "load"
    /\ calls' = [calls EXCEPT !.collect = @ + 1]
    /\ UNCHANGED <<inputPath, pkg, visited, used, declMap, stack, expanded, result, outFile>>

(***************************************************************************)
(* CollectUsedDeclarations.                                                *)
(***************************************************************************)
\* packages.Load fails or returns no package: the error goes back to main,
\* which logs it and returns.
LoadFail ==
    /\ pc = "load"
    /\ result' = [state |-> "load error", decls |-> EmptyBag]
    /\ pc' = "exit"
    /\ UNCHANGED <<inputPath, pkg, visited, used, declMap, stack, expanded, outFile, calls>>

\* packages.Load returns a package.
LoadOK ==
    /\ pc = "load"
    /\ \E k \in PackageKeys : pkg' = Loaded(k)
    /\ pc' = "find"
    /\ UNCHANGED <<inputPath, visited, used, declMap, stack, expanded, result, outFile, calls>>

\* The entry file is not found and main goes on to write all the same.
EntryNotFoundGoesOn ==
    /\ pc = "find"
    /\ EntryIndex(pkg, inputPath) = 0
    /\ result' = [state |-> "entry error", decls |-> EmptyBag]
    /\ pc' = "write"
    /\ UNCHANGED <<inputPath, pkg, visited, used, declMap, stack, expanded, outFile, calls>>

\* No file of the package has the entry path as its file name.
EntryNotFound ==
    /\ pc = "find"
    /\ EntryIndex(pkg, inputPath) = 0
    /\ result' = [state |-> "entry error", decls |-> EmptyBag]
    /\ pc' = "exit"
    /\ UNCHANGED <<inputPath, pkg, visited, used, declMap, stack, expanded, outFile, calls>>

\* The loop over entryAST.Decls: every identifier of every declaration of
\* the entry file is resolved and visited.
SeedEntry ==
    /\ pc = "find"
    /\ EntryIndex(pkg, inputPath) # 0
    /\ stack' = InspectAll(pkg.objects,
                           DeclsNodesOf(pkg.files[EntryIndex(pkg, inputPath)].decls))
    /\ pc' = "visit"
    /\ UNCHANGED <<inputPath, pkg, visited, used, declMap, expanded, result, outFile, calls>>

\* visit(obj) with obj nil or visited already: return.
VisitSkip ==
    /\ pc = "visit"
    /\ stack # <<>>
    /\ Head(stack).t = "visit"
    /\ Guarded(visited, Head(stack).obj)
    /\ stack' = Tail(stack)
    /\ UNCHANGED <<pc, inputPath, pkg, visited, used, declMap, expanded, result, outFile, calls>>

\* visit(obj) otherwise: mark the object and its name, then scan.
VisitMark ==
    /\ pc = "visit"
    /\ stack # <<>>
    /\ Head(stack).t = "visit"
    /\ ~Guarded(visited, Head(stack).obj)
    /\ LET obj == Head(stack).obj IN
        /\ visited' = Marked(visited, obj)
        /\ used' = used \cup {obj.n}
        /\ expanded' = Put(expanded, obj,
                           IF obj \in DOMAIN expanded THEN expanded[obj] + 1 ELSE 1)
        /\ stack' = <<ScanFrom(obj, 1)>> \o Tail(stack)
    /\ UNCHANGED <<pc, inputPath, pkg, declMap, result, outFile, calls>>

\* The scan reaches the next declaration or spec carrying the name:
\* it is recorded and expanded, and the scan goes on behind it.
ScanMatch ==
    /\ pc = "visit"
    /\ stack # <<>>
    /\ Head(stack).t = "scan"
    /\ LET obj == Head(stack).obj
           hits == {j \in Head(stack).at..Len(pkg.items) : Matches(pkg, pkg.items[j], obj.n)}
       IN  /\ hits # {}
           /\ LET j == CHOOSE i \in hits : \A h \in hits : i <= h
                  it == pkg.items[j]
              IN  /\ declMap' = Put(declMap, obj.n, <<it.f, it.d>>)
                  /\ stack' = Expand(pkg, it, obj.n) \o <<ScanFrom(obj, j + 1)>> \o Tail(stack)
    /\ UNCHANGED <<pc, inputPath, pkg, visited, used, expanded, result, outFile, calls>>

\* No further declaration carries the name: visit(obj) returns.
ScanEnd ==
    /\ pc = "visit"
    /\ stack # <<>>
    /\ Head(stack).t = "scan"
    /\ \A j \in Head(stack).at..Len(pkg.items) : ~Matches(pkg, pkg.items[j], Head(stack).obj.n)
    /\ stack' = Tail(stack)
    /\ UNCHANGED <<pc, inputPath, pkg, visited, used, declMap, expanded, result, outFile, calls>>

\* e.Results.List with e.Results = nil: the process dies.
NilDereference ==
    /\ pc = "visit"
    /\ stack # <<>>
    /\ Head(stack).t = "panic"
    /\ pc' = "panic"
    /\ UNCHANGED <<inputPath, pkg, visited, used, declMap, stack, expanded, result, outFile, calls>>

\* The traversal is over: the values of declMap are appended to decls, and
\* main logs the used names.
CollectDecls ==
    /\ pc = "visit"
    /\ stack = <<>>
    /\ result' = [state |-> "ok", decls |-> ReturnedDecls(declMap)]
    /\ pc' = "write"
    /\ UNCHANGED <<inputPath, pkg, visited, used, declMap, stack, expanded, outFile, calls>>

(***************************************************************************)
(* WriteFilteredSource and autoFixImports.                                 *)
(***************************************************************************)
\* os.ReadFile or parser.ParseFile fails: nothing is created.
WriteReadFail ==
    /\ pc = "write"
    /\ calls' = [calls EXCEPT !.write = @ + 1]
    /\ pc' = "exit"
    /\ UNCHANGED <<inputPath, pkg, visited, used, declMap, stack, expanded, result, outFile>>

\* os.MkdirAll succeeds and os.Create fails.
WriteCreateFail ==
    /\ pc = "write"
    /\ calls' = [calls EXCEPT !.write = @ + 1]
    /\ outFile' = [outFile EXCEPT !.dir = TRUE]
    /\ pc' = "exit"
    /\ UNCHANGED <<inputPath, pkg, visited, used, declMap, stack, expanded, result>>

\* format.Node fails on the created file.
WriteFormatFail ==
    /\ pc = "write"
    /\ calls' = [calls EXCEPT !.write = @ + 1]
    /\ outFile' = [outFile EXCEPT !.dir = TRUE, !.file = "partial"]
    /\ pc' = "exit"
    /\ UNCHANGED <<inputPath, pkg, visited, used, declMap, stack, expanded, result>>

\* The entry file is written with its declarations replaced by decls.
WriteOK ==
    /\ pc = "write"
    /\ calls' = [calls EXCEPT !.write = @ + 1]
    /\ outFile' = [dir |-> TRUE, file |-> "written", decls |-> result.decls]
    /\ pc' = "fix"
    /\ UNCHANGED <<inputPath, pkg, visited, used, declMap, stack, expanded, result>>

\* autoFixImports rewrites the file, or fails; main drops its error.
AutoFixImports ==
    /\ pc = "fix"
    /\ calls' = [calls EXCEPT !.fix = @ + 1]
    /\ \E ok \in BOOLEAN :
           outFile' = [outFile EXCEPT !.file = IF ok THEN "fixed" ELSE @]
    /\ pc' = "exit"
    /\ UNCHANGED <<inputPath, pkg, visited, used, declMap, stack, expanded, result>>

Next ==
    \/ MainNoInput
    \/ MainCollect
    \/ LoadFail
    \/ LoadOK
    \/ EntryNotFound
    \/ SeedEntry
    \/ VisitSkip
    \/ VisitMark
    \/ ScanMatch
    \/ ScanEnd
    \/ NilDereference
    \/ CollectDecls
    \/ WriteReadFail
    \/ WriteCreateFail
    \/ WriteFormatFail
    \/ WriteOK
    \/ AutoFixImports

Spec == Init /\ [][Next]_vars


(***************************************************************************)
(* Vocabulary of the properties.  UsedSet is used, RetainedDeclarations is *)
(* the list CollectUsedDeclarations returns.  A Symbol is a function, a    *)
(* method, a named type or a package-level variable; its Declaration is    *)
(* the declaration or spec whose name defines it.                          *)
(***************************************************************************)
\* CollectUsedDeclarations has returned without error.
Returned == result.state = "ok"

\* CollectUsedDeclarations returns: main has its results and has not gone on.
JustReturned == Returned /\ pc = "write"

Retained == BagToSet(result.decls)

IsSymbol(o) == o.s \in {"pkg", "S", "T"}

\* The index of the entry file among the files of the package.
EntryFile == CHOOSE f \in DOMAIN pkg.files : pkg.files[f].filename = EntryPath

\* Every place of the declaration scan, as <<file, declaration>>.
DeclPositions == {<<it.f, it.d>> : it \in Range(pkg.items)}

\* The identifiers that name what the declaration or spec at item it declares.
NameIdents(it) ==
    LET d == DeclAt(pkg, it)
    IN  IF d.kind = "FuncDecl" THEN {d.name} ELSE Range(d.specs[it.s].names)

\* The items whose declaration or spec defines the object.
ItemsDefining(o) == {it \in Range(pkg.items) : \E id \in NameIdents(it) : id.def = o}

\* The declaration at a position carries the name.
Carries(pos, name) ==
    \E it \in Range(pkg.items) :
        /\ <<it.f, it.d>> = pos
        /\ \E id \in NameIdents(it) : id.name = name

\* What the inspection of a subtree resolves: Uses, else Defs, of every identifier.
Resolved(nodes) ==
    {InspectIdent(pkg.objects, id).obj : id \in Range(IdentsOf(nodes))} \ {NoObj}

\* The objects any identifier of a subtree uses.
AllUses(nodes) == {InfoUses(pkg.objects, id) : id \in Range(IdentsOf(nodes))} \ {NoObj}

RECURSIVE TypeRefs(_)

\* The objects named in a type expression as a plain name, a pointee, an
\* element type (array, slice, channel, variadic), a map key or value, the
\* base of a qualified name, or a parameter or result type of a function type.
TypeRefs(e) ==
    CASE e.k = "Ident" -> {InfoUses(pkg.objects, e)} \ {NoObj}
      [] e.k \in {"StarExpr", "ChanType", "Ellipsis", "SelectorExpr"} -> TypeRefs(e.sub[1])
      [] e.k = "ArrayType" -> TypeRefs(e.sub[2])
      [] e.k = "MapType" -> TypeRefs(e.sub[1]) \cup TypeRefs(e.sub[2])
      [] e.k = "FuncType" ->
            UNION {UNION {TypeRefs(FieldType(fl.sub[i])) : i \in DOMAIN fl.sub} :
                      fl \in {e.sub[1], e.sub[2]} \ {NilNode}}
      [] OTHER -> {}

RECURSIVE ValueRefs(_)

\* The objects named in a value expression outside function literals,
\* selector member names, asserted types and forms visitExpr has no case for.
ValueRefs(e) ==
    CASE e.k = "Ident" -> {InfoUses(pkg.objects, e)} \ {NoObj}
      [] e.k = "CompositeLit" ->
            TypeRefs(e.sub[1]) \cup UNION {ValueRefs(e.sub[i]) : i \in 2..Len(e.sub)}
      [] e.k \in {"CallExpr", "BinaryExpr", "KeyValueExpr", "IndexExpr", "SliceExpr"} ->
            UNION {ValueRefs(e.sub[i]) : i \in DOMAIN e.sub}
      [] e.k \in {"UnaryExpr", "ParenExpr", "SelectorExpr", "TypeAssertExpr"} ->
            ValueRefs(e.sub[1])
      [] OTHER -> {}

\* The field types of the struct type of a TypeSpec.
StructFieldTypes(sp) ==
    IF sp.type.k = "StructType"
    THEN {FieldType(sp.type.sub[1].sub[i]) : i \in DOMAIN sp.type.sub[1].sub}
    ELSE {}

\* The Symbols the Declaration at item it references, as the traversal follows
\* them: the body of a function; the field types of a struct; the declared
\* type and the initializers of a variable.
WalkedRefs(it) ==
    LET d == DeclAt(pkg, it) IN
    IF d.kind = "FuncDecl" THEN (IF d.body # NilNode THEN Resolved(<<d.body>>) ELSE {})
    ELSE LET sp == d.specs[it.s] IN
         CASE sp.sk = "TypeSpec"  -> UNION {TypeRefs(t) : t \in StructFieldTypes(sp)}
           [] sp.sk = "ValueSpec" ->
                TypeRefs(sp.type) \cup UNION {ValueRefs(sp.values[i]) : i \in DOMAIN sp.values}
           [] OTHER -> {}

\* The same, with everything the declared type and the initializers of a
\* variable mention.
MentionedRefs(it) ==
    LET d == DeclAt(pkg, it) IN
    IF d.kind = "GenDecl" /\ d.specs[it.s].sk = "ValueSpec"
    THEN AllUses(<<d.specs[it.s].type>> \o d.specs[it.s].values)
    ELSE WalkedRefs(it)

\* The Symbol has a top-level declaration in the package.
HasTopLevelDecl(o) == ItemsDefining(o) # {}

\* The name of the Symbol is in UsedSet and, when the Symbol has a top-level
\* declaration, a declaration carrying the name is retained.
Pulled(o) ==
    /\ o.n \in used
    /\ HasTopLevelDecl(o) => \E pos \in Retained : Carries(pos, o.n)

IsScenario == Obj("MainFunc", "pkg") \in pkg.objects

ScenarioNames == {"MainFunc", "helper", "MyStruct", "Helper2Type"}

\* The positions of the declarations carrying a name.
DeclsNamed(name) == {pos \in DeclPositions : Carries(pos, name)}

ItemNodes(it) ==
    LET d == DeclAt(pkg, it)
    IN  IF d.kind = "FuncDecl" THEN DeclNodes(d) ELSE SpecNodes(<<d.specs[it.s]>>)

MentionEdges(o) == UNION {Resolved(ItemNodes(it)) : it \in ItemsDefining(o)}

RECURSIVE MentionClosure(_)

MentionClosure(S) ==
    LET N == S \cup UNION {MentionEdges(o) : o \in S}
    IN  IF N = S THEN S ELSE MentionClosure(N)

Reachable == MentionClosure(Resolved(DeclsNodesOf(pkg.files[EntryFile].decls)))

C3_Minimality ==
    Returned =>
        \A it \in Range(pkg.items) :
            <<it.f, it.d>> \in Retained =>
                \A id \in NameIdents(it) : id.def \in Reachable

(***************************************************************************)
(* C4.  RetainedDeclarations is a subset of the declarations of the        *)
(* package and holds every top-level declaration of the entry file.        *)
(***************************************************************************)
\* A function, method, type, variable or constant declaration (no import).
IsTopLevelDecl(d) ==
    d.kind = "FuncDecl" \/ \E i \in DOMAIN d.specs : d.specs[i].sk # "ImportSpec"

C4_SupersetOfEntry ==
    Returned =>
        /\ Retained \subseteq DeclPositions
        /\ \A d \in DOMAIN pkg.files[EntryFile].decls :
               IsTopLevelDecl(pkg.files[EntryFile].decls[d]) => <<EntryFile, d>> \in Retained

(***************************************************************************)
(* C5.  Cycle safety and termination: no Symbol is expanded twice, the     *)
(* traversal ends (every step of it descends in a well-founded order), and *)
(* when CollectUsedDeclarations has returned every Symbol on a cycle of    *)
(* use-edges with a visited Symbol is in UsedSet.                          *)
(***************************************************************************)
WalkedEdges(o) == UNION {WalkedRefs(it) : it \in ItemsDefining(o)}

RECURSIVE WalkedClosure(_)

WalkedClosure(S) ==
    LET N == S \cup UNION {WalkedEdges(o) : o \in S}
    IN  IF N = S THEN S ELSE WalkedClosure(N)

OnCycleWith(o) == {r \in WalkedClosure({o}) : o \in WalkedClosure({r})}

ExpandedOnce == \A o \in DOMAIN expanded : expanded[o] = 1

CyclesUsed == JustReturned => \A o \in visited : \A r \in OnCycleWith(o) : r.n \in used

\* Every object an identifier of the package can resolve to.
AllObjects == pkg.objects \cup Externals

\* How many objects are not in the visited set seen.
Unvisited(seen) == Cardinality(AllObjects \ seen)

\* The calls a pending call stands for: itself and, for a scan, what the
\* declarations it has yet to reach put on the stack.
Weight(c) ==
    IF c.t # "scan" THEN 1
    ELSE LET hits == {j \in c.at..Len(pkg.items) : Matches(pkg, pkg.items[j], c.obj.n)}
             RECURSIVE Sum(_)
             Sum(H) == IF H = {} THEN 0
                       ELSE LET j == CHOOSE h \in H : TRUE
                            IN  1 + Len(Expand(pkg, pkg.items[j], c.obj.n)) + Sum(H \ {j})
         IN  1 + Sum(hits)

RECURSIVE StackWeight(_)

StackWeight(st) == IF st = <<>> THEN 0 ELSE Weight(Head(st)) + StackWeight(Tail(st))

\* A step of the traversal marks a Symbol not visited before or, marking
\* none, leaves less to be called: the pair (Unvisited, StackWeight) goes
\* down in the lexicographic order, so the traversal takes finitely many steps.
TraversalDescends ==
    (pc = "visit" /\ pc' = "visit") =>
        \/ Unvisited(visited') < Unvisited(visited)
        \/ Unvisited(visited') = Unvisited(visited) /\ StackWeight(stack') < StackWeight(stack)

C5_CycleSafety ==
    /\ []ExpandedOnce
    /\ []CyclesUsed
    /\ [][TraversalDescends]_vars

\* Two mutually recursive functions (func A() { B() } and func B() { A(); B() }),
\* both visited, with the traversal over.
C5_Witness ==
    /\ JustReturned
    /\ {Obj("A", "pkg"), Obj("B", "pkg")} \subseteq visited
    /\ Obj("B", "pkg") \in OnCycleWith(Obj("A", "pkg"))

(***************************************************************************)
(* C6.  The closure computation never fails: no crash on any input.        *)
(***************************************************************************)
C6_NeverFails == pc # "panic"

(***************************************************************************)
(* C7.  Interface non-expansion: a concrete method whose name the          *)
(* traversal reaches only as a method of an interface (its name inside the *)
(* interface type, or a call through an interface value) is not in UsedSet *)
(* and its declaration is not retained.                                    *)
(***************************************************************************)
ConcreteMethods == {m \in pkg.objects : m.s \in {"S", "T"}}

C7_InterfaceNonExpansion ==
    Returned =>
        \A m \in ConcreteMethods :
            (\A o \in visited : o.n = m.n => o.s = "iface") =>
                /\ m.n \notin used
                /\ \A it \in ItemsDefining(m) : <<it.f, it.d>> \notin Retained

(***************************************************************************)
(* C8.  For an entry file that references nothing declared in another file *)
(* UsedSet is exactly the set of the names its declarations declare.       *)
(***************************************************************************)
EntryItems == {it \in Range(pkg.items) : it.f = EntryFile}

EntryDeclaredNames == UNION {{id.name : id \in NameIdents(it)} : it \in EntryItems}

SelfContained ==
    \A o \in Resolved(DeclsNodesOf(pkg.files[EntryFile].decls)) :
        \A it \in ItemsDefining(o) : it.f = EntryFile

C8_UsedIsEntryNames == Returned /\ SelfContained => used = EntryDeclaredNames

(***************************************************************************)
(* C9.  Pipeline ordering: the output directory and file exist, and        *)
(* WriteFilteredSource and autoFixImports have been called, only after     *)
(* CollectUsedDeclarations returned without error; with an empty flag, a   *)
(* load failure or no entry file nothing is written; no step runs twice.   *)
(***************************************************************************)
C9_PipelineOrdering ==
    /\ (outFile.dir \/ outFile.file # "absent" \/ calls.write > 0 \/ calls.fix > 0) => Returned
    /\ (inputPath = "" \/ result.state \in {"load error", "entry error"}) =>
           /\ calls.write = 0 /\ calls.fix = 0
           /\ ~outFile.dir /\ outFile.file = "absent"
    /\ calls.collect <= 1 /\ calls.write <= 1 /\ calls.fix <= 1
    /\ calls.fix > 0 => outFile.file \in {"written", "fixed"}

\* main has ended after the entry file was not found; nothing is on disk.
C9_Witness ==
    /\ pc = "exit"
    /\ result.state = "entry error"
    /\ outFile.file = "absent"
    /\ calls.collect = 1

(***************************************************************************)
(* C10.  The returned list never holds the same declaration twice.         *)
(***************************************************************************)
C10_NoDuplicates == Returned => \A pos \in Retained : CopiesIn(pos, result.decls) = 1

====
